---------------------------- MODULE Spec2Model ----------------------------
(***************************************************************************)
(* simpleperf report-sample (cmd_report_sample.cpp): option parsing, the   *)
(* per-record symbolization walk, the length-prefixed protobuf report      *)
(* writer and the report dumper.                                           *)
(*                                                                         *)
(* Unsigned 64-bit values are kept as integers; a negative integer v       *)
(* stands for 2^64 + v, which is how perf_event.h writes the context       *)
(* markers ((__u64)-4095 and so on).  Bytes are 0..255, strings are        *)
(* sequences of bytes.                                                     *)
(***************************************************************************)
EXTENDS Integers, Sequences, FiniteSets, TLC

\* ------------------------------------------------------------------------
\* Bounds of the model
\* ------------------------------------------------------------------------
MaxArgs == 4
MaxRecords == 2
MaxChain == 3
BlockSize == 24
MaxLimit == 48

\* ------------------------------------------------------------------------
\* perf_event.h context markers, as used by the call-chain walk
\* ------------------------------------------------------------------------
PERF_CONTEXT_MAX == -4095
PERF_CONTEXT_KERNEL == -128
PERF_CONTEXT_USER == -512
PERF_CONTEXT_HV == -32

\* Unsigned comparison ip >= bound on the two's complement reading.
UGe(a, b) ==
  IF a < 0 /\ b >= 0 THEN TRUE
  ELSE IF a >= 0 /\ b < 0 THEN FALSE
  ELSE a >= b

Min(a, b) == IF a < b THEN a ELSE b

\* ------------------------------------------------------------------------
\* Wire primitives of the coded streams
\* ------------------------------------------------------------------------
\* CodedOutputStream::WriteLittleEndian32
LittleEndian32(n) ==
  << n % 256, (n \div 256) % 256, (n \div 65536) % 256, (n \div 16777216) % 256 >>

RECURSIVE VarintNat(_)
VarintNat(v) ==
  IF v < 128 THEN << v >>
  ELSE << (v % 128) + 128 >> \o VarintNat(v \div 128)

RECURSIVE VarintHigh(_, _)
\* The low n groups of a value with bit 63 set, then the tenth byte.
VarintHigh(v, n) ==
  IF n = 0 THEN << 1 >>
  ELSE << (v % 128) + 128 >> \o VarintHigh(v \div 128, n - 1)

\* CodedOutputStream::WriteVarint64
Varint(v) == IF v >= 0 THEN VarintNat(v) ELSE VarintHigh(v, 9)

\* CodedInputStream::ReadLittleEndian32 at 1-based position pos of s.  A value
\* of 2^31 or more is returned as -1: PushLimit takes it as a negative int.
ReadLittleEndian32(s, pos) ==
  IF pos + 3 > Len(s) THEN [ok |-> FALSE, pos |-> pos, val |-> 0]
  ELSE [ok |-> TRUE, pos |-> pos + 4,
        val |-> IF s[pos + 3] >= 128 THEN 0 - 1
                ELSE s[pos] + 256 * s[pos + 1] + 65536 * s[pos + 2]
                     + 16777216 * s[pos + 3]]

RECURSIVE VarintLen(_, _, _, _)
\* Number of bytes of the varint starting at pos (0 when it is cut by end or
\* runs past ten bytes).
VarintLen(s, pos, end, n) ==
  IF pos >= end \/ n >= 10 THEN 0
  ELSE IF s[pos] < 128 THEN n + 1
  ELSE VarintLen(s, pos + 1, end, n + 1)

RECURSIVE VarintValue(_, _, _)
\* Horner evaluation of groups pos..pos+n-1, most significant first.
VarintValue(s, pos, n) ==
  IF n = 0 THEN 0
  ELSE (s[pos] % 128) + 128 * VarintValue(s, pos + 1, n - 1)

RECURSIVE VarintComplement(_, _, _)
VarintComplement(s, pos, n) ==
  IF n = 0 THEN 0
  ELSE (127 - (s[pos] % 128)) + 128 * VarintComplement(s, pos + 1, n - 1)

VarintOfLen(s, pos, n) ==
  IF n = 0 THEN [ok |-> FALSE, pos |-> pos, val |-> 0]
  ELSE IF n = 10
  THEN [ok |-> TRUE, pos |-> pos + 10,
        val |-> (0 - 1) - VarintComplement(s, pos, 9)]
  ELSE [ok |-> TRUE, pos |-> pos + n, val |-> VarintValue(s, pos, n)]

\* CodedInputStream::ReadVarint64; end is the first position past the limit.
ReadVarint(s, pos, end) == VarintOfLen(s, pos, VarintLen(s, pos, end, 0))

\* ------------------------------------------------------------------------
\* report_sample.proto messages:
\*   Record { optional Type type = 1; optional Sample sample = 2; }
\*   Sample { optional uint64 time = 1; repeated CallChainEntry callchain = 2; }
\*   CallChainEntry { optional uint64 ip = 1; optional string symbol = 2;
\*                    optional string file = 3; }
\* ------------------------------------------------------------------------
Record_Type_UNKNOWN == 0
Record_Type_SAMPLE == 1

Record_Type_IsValid(v) == v \in {Record_Type_UNKNOWN, Record_Type_SAMPLE}

EmptySample == [time |-> 0, callchain |-> << >>]
EmptyRecord == [type |-> Record_Type_UNKNOWN, sample |-> EmptySample]

TagFieldNumber(tag) == tag \div 8
TagWireType(tag) == tag % 8

\* A length-delimited field: tag, length, bytes.
LengthDelimited(tag, bytes) == << tag >> \o Varint(Len(bytes)) \o bytes

SerializeEntry(e) ==
  << 8 >> \o Varint(e.ip) \o LengthDelimited(18, e.symbol)
          \o LengthDelimited(26, e.file)

RECURSIVE SerializeCallchain(_)
SerializeCallchain(cc) ==
  IF cc = << >> THEN << >>
  ELSE LengthDelimited(18, SerializeEntry(Head(cc)))
       \o SerializeCallchain(Tail(cc))

SerializeSample(sm) ==
  << 8 >> \o Varint(sm.time) \o SerializeCallchain(sm.callchain)

\* proto::Record::SerializeWithCachedSizes for a record with type and sample set.
SerializeRecord(r) ==
  << 8 >> \o Varint(r.type) \o LengthDelimited(18, SerializeSample(r.sample))

\* proto::Record::ByteSize
ByteSize(r) == Len(SerializeRecord(r))

\* Result of a parse step: ok is the return value, clean says the message ended
\* at a limit or at end of input (legitimate_message_end_), pos the next byte.
ParseFail(pos, msg) == [ok |-> FALSE, clean |-> FALSE, pos |-> pos, msg |-> msg]
ParseEnd(pos, msg) == [ok |-> TRUE, clean |-> TRUE, pos |-> pos, msg |-> msg]
ParseStop(pos, msg) == [ok |-> TRUE, clean |-> FALSE, pos |-> pos, msg |-> msg]

\* A length-delimited value whose length n was read: the bytes must lie
\* before end.
SkipBytes(n, end) ==
  [ok |-> n.ok /\ n.val >= 0 /\ n.pos + n.val <= end, pos |-> n.pos + n.val,
   val |-> 0]

TakeBytes(s, n, end) ==
  IF n.ok /\ n.val >= 0 /\ n.pos + n.val <= end
  THEN [ok |-> TRUE, pos |-> n.pos + n.val,
        val |-> SubSeq(s, n.pos, n.pos + n.val - 1)]
  ELSE [ok |-> FALSE, pos |-> n.pos, val |-> << >>]

\* WireFormatLite::SkipField: the position after the unknown field.
SkipField(s, pos, end, tag) ==
  LET wt == TagWireType(tag) IN
  IF wt = 0 THEN ReadVarint(s, pos, end)
  ELSE IF wt = 1 THEN [ok |-> pos + 8 <= end, pos |-> pos + 8, val |-> 0]
  ELSE IF wt = 5 THEN [ok |-> pos + 4 <= end, pos |-> pos + 4, val |-> 0]
  ELSE IF wt = 2 THEN SkipBytes(ReadVarint(s, pos, end), end)
  ELSE [ok |-> FALSE, pos |-> pos, val |-> 0]

\* WireFormatLite::ReadString: the bytes, or failure when the limit cuts them.
ReadString(s, pos, end) == TakeBytes(s, ReadVarint(s, pos, end), end)

\* ReadTag returned 0 (end of input, a limit, a zero tag) or an end-group tag.
EndsMessage(t) == ~t.ok \/ t.val = 0 \/ TagWireType(t.val) = 4

EmptyEntry == [ip |-> 0, symbol |-> << >>, file |-> << >>]

SetEntryField(e, tag, val) ==
  IF tag = 8 THEN [e EXCEPT !.ip = val]
  ELSE IF tag = 18 THEN [e EXCEPT !.symbol = val]
  ELSE IF tag = 26 THEN [e EXCEPT !.file = val]
  ELSE e

RECURSIVE ParseEntry(_, _, _, _)
\* After a field's value v was read: go on with the next tag, or fail.
EntryGoOn(s, end, e, tag, v) ==
  IF v.ok THEN ParseEntry(s, v.pos, end, SetEntryField(e, tag, v.val))
  ELSE ParseFail(v.pos, e)

\* The field whose tag t was just read.
EntryField(s, end, e, t) ==
  IF EndsMessage(t) THEN ParseStop(IF t.ok THEN t.pos ELSE end, e)
  ELSE IF t.val = 8 THEN EntryGoOn(s, end, e, 8, ReadVarint(s, t.pos, end))
  ELSE IF t.val \in { 18, 26 }
  THEN EntryGoOn(s, end, e, t.val, ReadString(s, t.pos, end))
  ELSE EntryGoOn(s, end, e, 0, SkipField(s, t.pos, end, t.val))

\* Sample_CallChainEntry::MergePartialFromCodedStream
ParseEntry(s, pos, end, e) ==
  IF pos >= end THEN ParseEnd(pos, e)
  ELSE EntryField(s, end, e, ReadVarint(s, pos, end))

\* WireFormatLite::ReadMessageNoVirtual of a callchain entry whose length n was
\* read: parse under the pushed limit; the limit must be met exactly.
ReadEntryMessage(s, end, n) ==
  IF ~n.ok \/ n.val < 0 THEN ParseFail(n.pos, EmptyEntry)
  ELSE ParseEntry(s, n.pos, Min(n.pos + n.val, end), EmptyEntry)

RECURSIVE ParseSample(_, _, _, _)
SampleGoOn(s, end, sm, v) ==
  IF v.ok THEN ParseSample(s, v.pos, end, [sm EXCEPT !.time = v.val])
  ELSE ParseFail(v.pos, sm)

SampleSkipOn(s, end, sm, v) ==
  IF v.ok THEN ParseSample(s, v.pos, end, sm) ELSE ParseFail(v.pos, sm)

SampleAddEntry(s, end, sm, inner) ==
  IF inner.ok /\ inner.clean
  THEN ParseSample(s, inner.pos, end, [sm EXCEPT !.callchain = Append(@, inner.msg)])
  ELSE ParseFail(inner.pos, sm)

SampleField(s, end, sm, t) ==
  IF EndsMessage(t) THEN ParseStop(IF t.ok THEN t.pos ELSE end, sm)
  ELSE IF t.val = 8 THEN SampleGoOn(s, end, sm, ReadVarint(s, t.pos, end))
  ELSE IF t.val = 18
  THEN SampleAddEntry(s, end, sm,
                      ReadEntryMessage(s, end, ReadVarint(s, t.pos, end)))
  ELSE SampleSkipOn(s, end, sm, SkipField(s, t.pos, end, t.val))

\* Sample::MergePartialFromCodedStream
ParseSample(s, pos, end, sm) ==
  IF pos >= end THEN ParseEnd(pos, sm)
  ELSE SampleField(s, end, sm, ReadVarint(s, pos, end))

\* ReadMessageNoVirtual of the sample whose length n was read, merged into sm.
ReadSampleMessage(s, end, sm, n) ==
  IF ~n.ok \/ n.val < 0 THEN ParseFail(n.pos, sm)
  ELSE ParseSample(s, n.pos, Min(n.pos + n.val, end), sm)

RECURSIVE ParseRecord(_, _, _, _)
\* The type field: a value that is no Type is kept as an unknown field.
RecordSetType(s, end, r, v) ==
  IF ~v.ok THEN ParseFail(v.pos, r)
  ELSE ParseRecord(s, v.pos, end,
                   IF Record_Type_IsValid(v.val) THEN [r EXCEPT !.type = v.val] ELSE r)

RecordSkipOn(s, end, r, v) ==
  IF v.ok THEN ParseRecord(s, v.pos, end, r) ELSE ParseFail(v.pos, r)

RecordSetSample(s, end, r, inner) ==
  IF inner.ok /\ inner.clean
  THEN ParseRecord(s, inner.pos, end, [r EXCEPT !.sample = inner.msg])
  ELSE ParseFail(inner.pos, r)

RecordField(s, end, r, t) ==
  IF EndsMessage(t) THEN ParseStop(IF t.ok THEN t.pos ELSE end, r)
  ELSE IF t.val = 8 THEN RecordSetType(s, end, r, ReadVarint(s, t.pos, end))
  ELSE IF t.val = 18
  THEN RecordSetSample(s, end, r,
                       ReadSampleMessage(s, end, r.sample, ReadVarint(s, t.pos, end)))
  ELSE RecordSkipOn(s, end, r, SkipField(s, t.pos, end, t.val))

\* proto::Record::MergePartialFromCodedStream
ParseRecord(s, pos, end, r) ==
  IF pos >= end THEN ParseEnd(pos, r)
  ELSE RecordField(s, end, r, ReadVarint(s, pos, end))

\* MessageLite::ParseFromCodedStream under PushLimit(size): Clear, merge, and no
\* check that the whole message was consumed.
ParseFromCodedStream(s, pos, size) ==
  ParseRecord(s, pos,
              IF size < 0 THEN Len(s) + 1 ELSE Min(pos + size, Len(s) + 1),
              EmptyRecord)

\* ------------------------------------------------------------------------
\* Input records and the thread tree (thread_tree.h, record.h)
\* ------------------------------------------------------------------------
Unknown == << 117 >>
DsoUser == << 108 >>
DsoKernel == << 107 >>

MmapRecord(k, a, d) ==
  [type |-> "mmap", in_kernel |-> k, pid |-> 1, addr |-> a, dso |-> d]

SampleRecord(t, i, k, c) ==
  [type |-> "sample", pid |-> 1, tid |-> 1, time |-> t, ip |-> i,
   in_kernel |-> k, ips |-> c]

\* SampleRecord::InKernel
InKernel(r) == r.in_kernel

EmptyThreadTree == [maps |-> {}, threads |-> {}]

\* ThreadTree::Update: a mapping record replaces the mapping at its address.
Update(tt, r) ==
  IF r.type = "mmap"
  THEN [tt EXCEPT !.maps =
          { m \in @ : ~(m.in_kernel = r.in_kernel /\ m.addr = r.addr
                        /\ (r.in_kernel \/ m.pid = r.pid)) }
          \cup { [in_kernel |-> r.in_kernel, pid |-> r.pid, addr |-> r.addr,
                  dso |-> r.dso] }]
  ELSE tt

\* ThreadTree::FindThreadOrNew
FindThreadOrNew(tt, pid, tid) ==
  [tree |-> [tt EXCEPT !.threads = @ \cup { << pid, tid >> }], thread |-> pid]

\* ThreadTree::FindMap: the dso path of the mapping owning ip in the kernel
\* maps (in_kernel) or the thread's process maps, else the unknown map.
FindMap(tt, thread, ip, in_kernel) ==
  LET hit == { m \in tt.maps : m.in_kernel = in_kernel /\ m.addr = ip
                               /\ (in_kernel \/ m.pid = thread) } IN
  IF hit = {} THEN Unknown ELSE (CHOOSE m \in hit : TRUE).dso

\* ThreadTree::FindSymbol: the symbol of ip in the mapping, else the unknown
\* symbol.
FindSymbol(map, ip) ==
  IF map = Unknown THEN Unknown ELSE << 102, 48 + (ip % 8) >>

\* ------------------------------------------------------------------------
\* The call-chain walks
\* ------------------------------------------------------------------------
\* ip >= PERF_CONTEXT_MAX
IsContextValue(ip) == UGe(ip, PERF_CONTEXT_MAX)

\* A switch whose default case falls back to the user context.
SwitchContextDefaultUser(in_kernel, ip) ==
  IF ip = PERF_CONTEXT_KERNEL THEN TRUE ELSE FALSE

\* A switch without the PERF_CONTEXT_USER case.
SwitchContextKernelOnly(in_kernel, ip) ==
  IF ip = PERF_CONTEXT_KERNEL THEN TRUE ELSE in_kernel

\* switch (ip) { case PERF_CONTEXT_KERNEL: ... case PERF_CONTEXT_USER: ... }
SwitchContext(in_kernel, ip) ==
  IF ip = PERF_CONTEXT_KERNEL THEN TRUE
  ELSE IF ip = PERF_CONTEXT_USER THEN FALSE
  ELSE in_kernel

\* A walk that drops the sample's ip wherever it stands in the call-chain.
SkipsSampleIpAnywhere(first_ip, ip, r) == ip = r.ip

\* if (first_ip) { first_ip = false; if (ip == r.ip_data.ip) continue; }
SkipsSampleIp(first_ip, ip, r) == first_ip /\ ip = r.ip

\* A lookup that never consults the kernel maps.
ResolveEntryInUserMaps(tt, thread, ip, in_kernel) ==
  LET map == FindMap(tt, thread, ip, FALSE) IN
  [ip |-> ip, symbol |-> FindSymbol(map, ip), file |-> map]

\* map = thread_tree_.FindMap(thread, ip, in_kernel); symbol =
\* thread_tree_.FindSymbol(map, ip); set_symbol, set_file.
ResolveEntry(tt, thread, ip, in_kernel) ==
  LET map == FindMap(tt, thread, ip, in_kernel) IN
  [ip |-> ip, symbol |-> FindSymbol(map, ip), file |-> map]

FindMapCall(ip, in_kernel) == [op |-> "FindMap", ip |-> ip, in_kernel |-> in_kernel]
FindSymbolCall(ip) == [op |-> "FindSymbol", ip |-> ip, in_kernel |-> FALSE]

RECURSIVE ProtobufCallchainLoopKeepsFirst(_, _, _, _, _, _, _)
\* A walk that clears first_ip only when it skips an address.
ProtobufCallchainLoopKeepsFirst(tt, thread, r, ips, in_kernel, first_ip, acc) ==
  IF ips = << >> THEN acc
  ELSE
    LET ip == Head(ips) IN
    IF IsContextValue(ip)
    THEN ProtobufCallchainLoopKeepsFirst(tt, thread, r, Tail(ips),
                                        SwitchContext(in_kernel, ip), first_ip, acc)
    ELSE IF SkipsSampleIp(first_ip, ip, r)
    THEN ProtobufCallchainLoopKeepsFirst(tt, thread, r, Tail(ips), in_kernel,
                                        FALSE, acc)
    ELSE ProtobufCallchainLoopKeepsFirst(tt, thread, r, Tail(ips), in_kernel,
           first_ip,
           [callchain |-> Append(acc.callchain,
                                 ResolveEntry(tt, thread, ip, in_kernel)),
            calls |-> acc.calls \o << FindMapCall(ip, in_kernel),
                                      FindSymbolCall(ip) >>])

RECURSIVE ProtobufCallchainLoop(_, _, _, _, _, _, _)
\* for (auto& ip : ips) of PrintSampleRecordInProtobuf; acc holds the entries
\* added to the sample and the resolver calls made.
ProtobufCallchainLoop(tt, thread, r, ips, in_kernel, first_ip, acc) ==
  IF ips = << >> THEN acc
  ELSE
    LET ip == Head(ips) IN
    IF IsContextValue(ip)
    THEN ProtobufCallchainLoop(tt, thread, r, Tail(ips),
                               SwitchContext(in_kernel, ip), first_ip, acc)
    ELSE IF SkipsSampleIp(first_ip, ip, r)
    THEN ProtobufCallchainLoop(tt, thread, r, Tail(ips), in_kernel, FALSE, acc)
    ELSE ProtobufCallchainLoop(tt, thread, r, Tail(ips), in_kernel, FALSE,
           [callchain |-> Append(acc.callchain,
                                 ResolveEntry(tt, thread, ip, in_kernel)),
            calls |-> acc.calls \o << FindMapCall(ip, in_kernel),
                                      FindSymbolCall(ip) >>])

RECURSIVE ContextAfter(_, _)
\* The context the markers of ips leave behind, from in_kernel.
ContextAfter(ips, in_kernel) ==
  IF ips = << >> THEN in_kernel
  ELSE ContextAfter(Tail(ips),
                    IF IsContextValue(Head(ips))
                    THEN SwitchContext(in_kernel, Head(ips)) ELSE in_kernel)

\* A PrintSampleRecordInProtobuf that resolves the sample's own ip in the
\* context the call-chain's markers leave behind.
BuildProtoRecordLeafAfterWalk(tt, r, show_callchain) ==
  LET in_kernel == InKernel(r)
      last == IF show_callchain THEN ContextAfter(r.ips, in_kernel) ELSE in_kernel
      thread == FindThreadOrNew(tt, r.pid, r.tid).thread
      leaf == [callchain |-> << ResolveEntry(tt, thread, r.ip, last) >>,
               calls |-> << [op |-> "FindThreadOrNew", ip |-> 0, in_kernel |-> FALSE],
                            FindMapCall(r.ip, last), FindSymbolCall(r.ip) >>]
      all == IF show_callchain
             THEN ProtobufCallchainLoop(tt, thread, r, r.ips, in_kernel, TRUE, leaf)
             ELSE leaf
  IN [record |-> [type |-> Record_Type_SAMPLE,
                  sample |-> [time |-> r.time, callchain |-> all.callchain]],
      calls |-> all.calls]

\* A PrintSampleRecordInProtobuf that walks the call-chain whatever
\* show_callchain_ says.
BuildProtoRecordAlwaysWalks(tt, r, show_callchain) ==
  LET in_kernel == InKernel(r)
      thread == FindThreadOrNew(tt, r.pid, r.tid).thread
      leaf == [callchain |-> << ResolveEntry(tt, thread, r.ip, in_kernel) >>,
               calls |-> << [op |-> "FindThreadOrNew", ip |-> 0, in_kernel |-> FALSE],
                            FindMapCall(r.ip, in_kernel), FindSymbolCall(r.ip) >>]
      all == ProtobufCallchainLoop(tt, thread, r, r.ips, in_kernel, TRUE, leaf)
  IN [record |-> [type |-> Record_Type_SAMPLE,
                  sample |-> [time |-> r.time, callchain |-> all.callchain]],
      calls |-> all.calls]

\* The proto::Record built by PrintSampleRecordInProtobuf, and its resolver
\* calls.
BuildProtoRecord(tt, r, show_callchain) ==
  LET in_kernel == InKernel(r)
      thread == FindThreadOrNew(tt, r.pid, r.tid).thread
      leaf == [callchain |-> << ResolveEntry(tt, thread, r.ip, in_kernel) >>,
               calls |-> << [op |-> "FindThreadOrNew", ip |-> 0, in_kernel |-> FALSE],
                            FindMapCall(r.ip, in_kernel), FindSymbolCall(r.ip) >>]
      all == IF show_callchain
             THEN ProtobufCallchainLoop(tt, thread, r, r.ips, in_kernel, TRUE, leaf)
             ELSE leaf
  IN [record |-> [type |-> Record_Type_SAMPLE,
                  sample |-> [time |-> r.time, callchain |-> all.callchain]],
      calls |-> all.calls]

\* One line group of the text report: FprintIndented(report_fp_, indent, ...).
TextFrame(indent, e) ==
  << [indent |-> indent, key |-> "ip", val |-> e.ip],
     [indent |-> indent, key |-> "dso", val |-> e.file],
     [indent |-> indent, key |-> "symbol", val |-> e.symbol] >>

RECURSIVE TextCallchainLoopNoDedup(_, _, _, _, _, _, _)
\* A text walk that prints the first address also when it is the sample's ip.
TextCallchainLoopNoDedup(tt, thread, r, ips, in_kernel, first_ip, acc) ==
  IF ips = << >> THEN acc
  ELSE
    LET ip == Head(ips) IN
    IF IsContextValue(ip)
    THEN TextCallchainLoopNoDedup(tt, thread, r, Tail(ips),
                                  SwitchContext(in_kernel, ip), first_ip, acc)
    ELSE TextCallchainLoopNoDedup(tt, thread, r, Tail(ips), in_kernel, FALSE,
           [lines |-> acc.lines
                      \o TextFrame(2, ResolveEntry(tt, thread, ip, in_kernel)),
            calls |-> acc.calls \o << FindMapCall(ip, in_kernel),
                                      FindSymbolCall(ip) >>])

RECURSIVE TextCallchainLoop(_, _, _, _, _, _, _)
\* for (auto& ip : ips) of PrintSampleRecord.
TextCallchainLoop(tt, thread, r, ips, in_kernel, first_ip, acc) ==
  IF ips = << >> THEN acc
  ELSE
    LET ip == Head(ips) IN
    IF IsContextValue(ip)
    THEN TextCallchainLoop(tt, thread, r, Tail(ips),
                           SwitchContext(in_kernel, ip), first_ip, acc)
    ELSE IF SkipsSampleIp(first_ip, ip, r)
    THEN TextCallchainLoop(tt, thread, r, Tail(ips), in_kernel, FALSE, acc)
    ELSE TextCallchainLoop(tt, thread, r, Tail(ips), in_kernel, FALSE,
           [lines |-> acc.lines
                      \o TextFrame(2, ResolveEntry(tt, thread, ip, in_kernel)),
            calls |-> acc.calls \o << FindMapCall(ip, in_kernel),
                                      FindSymbolCall(ip) >>])

\* The lines PrintSampleRecord prints for one sample, and its resolver calls.
BuildTextBlock(tt, r, show_callchain) ==
  LET in_kernel == InKernel(r)
      thread == FindThreadOrNew(tt, r.pid, r.tid).thread
      e == ResolveEntry(tt, thread, r.ip, in_kernel)
      leaf == [lines |-> << [indent |-> 0, key |-> "sample", val |-> 0],
                            [indent |-> 1, key |-> "time", val |-> r.time],
                            [indent |-> 1, key |-> "ip", val |-> e.ip],
                            [indent |-> 1, key |-> "dso", val |-> e.file],
                            [indent |-> 1, key |-> "symbol", val |-> e.symbol] >>,
               calls |-> << [op |-> "FindThreadOrNew", ip |-> 0, in_kernel |-> FALSE],
                            FindMapCall(r.ip, in_kernel), FindSymbolCall(r.ip) >>]
  IN IF show_callchain
     THEN TextCallchainLoop(tt, thread, r, r.ips, in_kernel, TRUE,
            [leaf EXCEPT !.lines = Append(@, [indent |-> 1, key |-> "callchain",
                                              val |-> 0])])
     ELSE leaf

\* ------------------------------------------------------------------------
\* Output stream: CodedOutputStream over CopyingOutputStreamAdaptor over
\* ProtobufFileWriter (fwrite), and the report file on disk
\* ------------------------------------------------------------------------
ClosedStream == [open |-> FALSE, buf |-> << >>, failed |-> FALSE]
OpenStream == [open |-> TRUE, buf |-> << >>, failed |-> FALSE]
\* No limit on the size of the report file.
Unlimited == 0 - 1

\* The report file before fopen; limit is the number of bytes the device
\* takes for it (the file size limit, the free space), Unlimited when it takes them all.
NoFile == [exists |-> FALSE, name |-> "", content |-> << >>, limit |-> Unlimited]

\* What the file holds of bytes handed to fwrite: the first limit of them.
Cut(bytes, limit) ==
  IF limit < 0 \/ Len(bytes) <= limit THEN bytes ELSE SubSeq(bytes, 1, limit)

\* Which fwrite call of an operation writing bytes reports the failure:
\* 0 the first, 1 the second, and so on for every block the bytes can fill;
\* -1 none (stdio takes the block into its own buffer and fwrite returns 1).
FailChoices(bytes) == (0 - 1)..(Len(bytes) \div BlockSize)

\* ProtobufFileWriter::Write of the adaptor's block, w = [os, file, ferr, limit]:
\* the file takes the block up to the limit; fwrite can return 0 only when
\* part of the block does not fit, and does so when told is TRUE.
WriteBlock(w, told) ==
  LET lost == Len(Cut(w.file \o w.os.buf, w.limit)) < Len(w.file) + Len(w.os.buf) IN
  [w EXCEPT !.file = Cut(@ \o w.os.buf, w.limit),
            !.os.buf = << >>,
            !.os.failed = (told /\ lost),
            !.ferr = (@ \/ (told /\ lost))]

RECURSIVE WriteRaw(_, _, _)
\* CodedOutputStream::WriteRaw of bytes into w: bytes fill the adaptor's
\* block; a full block is handed to ProtobufFileWriter::Write when more room
\* is needed; a failed fwrite sets the stream's error state and the bytes not
\* yet handed over are lost.
WriteRaw(w, bytes, k) ==
  IF bytes = << >> \/ w.os.failed THEN w
  ELSE
    LET room == BlockSize - Len(w.os.buf) IN
    IF Len(bytes) <= room
    THEN [w EXCEPT !.os.buf = @ \o bytes]
    ELSE IF room > 0
    THEN WriteRaw([w EXCEPT !.os.buf = @ \o SubSeq(bytes, 1, room)],
                  SubSeq(bytes, room + 1, Len(bytes)), k)
    ELSE WriteRaw(WriteBlock(w, k = 0), bytes, IF k >= 0 THEN k - 1 ELSE k)

\* ~CopyingOutputStreamAdaptor: WriteBuffer() on the way out of Run, its
\* result unchecked; then fclose, which writes what stdio still holds.
FlushOnExit(w, fwrite_ok) ==
  IF w.os.open /\ ~w.os.failed /\ w.os.buf # << >>
  THEN WriteBlock(w, ~fwrite_ok)
  ELSE w

\* ------------------------------------------------------------------------
\* Command line
\* ------------------------------------------------------------------------
Tokens ==
  { "--dump-protobuf-report", "-i", "-o", "--protobuf", "--show-callchain", "f" }

DefaultOptions ==
  [ok |-> TRUE, record_filename |-> "perf.data", dump_protobuf_report_file |-> "",
   report_filename |-> "", use_protobuf |-> FALSE, show_callchain |-> FALSE]

\* command.h NextArgumentOrError: is there an argument after position i.
NextArgumentOrError(args, i) == i + 1 <= Len(args)

RECURSIVE ParseArgs(_, _, _)
\* for (size_t i = 0; i < args.size(); ++i) of ParseOptions; i is 1-based.
ParseArgs(args, i, o) ==
  IF i > Len(args) THEN o
  ELSE IF args[i] = "--dump-protobuf-report"
  THEN IF ~NextArgumentOrError(args, i) THEN [o EXCEPT !.ok = FALSE]
       ELSE ParseArgs(args, i + 2, [o EXCEPT !.dump_protobuf_report_file = args[i + 1]])
  ELSE IF args[i] = "-i"
  THEN IF ~NextArgumentOrError(args, i) THEN [o EXCEPT !.ok = FALSE]
       ELSE ParseArgs(args, i + 2, [o EXCEPT !.record_filename = args[i + 1]])
  ELSE IF args[i] = "-o"
  THEN IF ~NextArgumentOrError(args, i) THEN [o EXCEPT !.ok = FALSE]
       ELSE ParseArgs(args, i + 2, [o EXCEPT !.report_filename = args[i + 1]])
  ELSE IF args[i] = "--protobuf"
  THEN ParseArgs(args, i + 1, [o EXCEPT !.use_protobuf = TRUE])
  ELSE IF args[i] = "--show-callchain"
  THEN ParseArgs(args, i + 1, [o EXCEPT !.show_callchain = TRUE])
  ELSE [o EXCEPT !.ok = FALSE]

\* A ParseOptions without the check of the report file name.
ProtobufNeedsReportFileNever(o) == FALSE

\* if (use_protobuf_ && report_filename_.empty()) return false;
ProtobufNeedsReportFile(o) == o.use_protobuf /\ o.report_filename = ""

\* ReportSampleCommand::ParseOptions
ParseOptions(args, o) ==
  LET p == ParseArgs(args, 1, o) IN
  IF ~p.ok THEN p
  ELSE IF ProtobufNeedsReportFile(p) THEN [p EXCEPT !.ok = FALSE]
  ELSE p

\* ------------------------------------------------------------------------
\* State
\* ------------------------------------------------------------------------
VARIABLES
  args,                        \* the arguments Run was called with
  pc,                          \* where Run is: parse, open, read, dump_open, dump_loop, done
  result,                      \* Run's return value: running, ok, fail
  run,                         \* 1: the first invocation; 2: a later dump of its report
  prev_result,                 \* the first invocation's return value, once a second started
  record_filename_, dump_protobuf_report_file_, show_callchain_, use_protobuf_,
  report_filename_, report_fp_, coded_os_, sample_count_, thread_tree_,
  pending,                     \* records of the capture file not yet delivered
  record_opened,               \* RecordFileReader::CreateInstance succeeded
  input,                       \* records delivered to ProcessRecord so far
  trace,                       \* per delivered record, the thread tree calls made
  emitted,                     \* per delivered record, what was printed for it
  out,                         \* bytes handed to coded_os_ so far
  text,                        \* lines printed to report_fp_ in text mode
  disk,                        \* the report file: bytes fwrite accepted
  ferr,                        \* ferror(report_fp_)
  reported,                    \* the sample count logged at the end, -1 before
  dpos,                        \* next byte of the dumped file, 0 before it is opened
  sizes,                       \* the length prefixes read
  parsed,                      \* the records parsed
  rendered,                    \* the sample blocks printed
  dump_sample_count            \* static sample_count of DumpProtobufReport

cmd_vars == << record_filename_, dump_protobuf_report_file_, show_callchain_,
               use_protobuf_, report_filename_, report_fp_, coded_os_,
               sample_count_, thread_tree_ >>
read_vars == << pending, record_opened, input, trace, emitted, reported >>
out_vars == << out, text, disk, ferr >>
dump_vars == << dpos, sizes, parsed, rendered, dump_sample_count >>
vars == << args, pc, result, run, prev_result, cmd_vars, read_vars, out_vars,
           dump_vars >>

\* ReportSampleCommand(): the constructor's defaults.
Constructor ==
  [record_filename |-> "perf.data", dump_protobuf_report_file |-> "",
   show_callchain |-> FALSE, use_protobuf |-> FALSE, report_filename |-> "",
   report_fp |-> "null", coded_os |-> ClosedStream, sample_count |-> 0,
   thread_tree |-> EmptyThreadTree]

Constructed ==
  /\ record_filename_ = Constructor.record_filename
  /\ dump_protobuf_report_file_ = Constructor.dump_protobuf_report_file
  /\ show_callchain_ = Constructor.show_callchain
  /\ use_protobuf_ = Constructor.use_protobuf
  /\ report_filename_ = Constructor.report_filename
  /\ report_fp_ = Constructor.report_fp
  /\ coded_os_ = Constructor.coded_os
  /\ sample_count_ = Constructor.sample_count
  /\ thread_tree_ = Constructor.thread_tree

InitWith(argLists, recordFiles, disks) ==
  /\ args \in argLists
  /\ pending \in recordFiles
  /\ disk \in disks
  /\ pc = "parse" /\ result = "running" /\ run = 1 /\ prev_result = "running"
  /\ Constructed
  /\ record_opened = FALSE /\ input = << >> /\ trace = << >> /\ emitted = << >>
  /\ out = << >> /\ text = << >> /\ ferr = FALSE /\ reported = 0 - 1
  /\ dpos = 0 /\ sizes = << >> /\ parsed = << >> /\ rendered = << >>
  /\ dump_sample_count = 0

Return(ok) == pc' = "done" /\ result' = (IF ok THEN "ok" ELSE "fail")

\* ------------------------------------------------------------------------
\* Run
\* ------------------------------------------------------------------------
\* A Run without the dump branch: it goes on to the capture file.
RunParseOptionsNoDump ==
  /\ pc = "parse"
  /\ LET o == ParseOptions(args,
               [ok |-> TRUE, record_filename |-> record_filename_,
                dump_protobuf_report_file |-> dump_protobuf_report_file_,
                report_filename |-> report_filename_,
                use_protobuf |-> use_protobuf_,
                show_callchain |-> show_callchain_]) IN
     /\ record_filename_' = o.record_filename
     /\ dump_protobuf_report_file_' = o.dump_protobuf_report_file
     /\ report_filename_' = o.report_filename
     /\ use_protobuf_' = o.use_protobuf
     /\ show_callchain_' = o.show_callchain
     /\ IF ~o.ok THEN Return(FALSE)
        ELSE pc' = "open" /\ result' = result
  /\ UNCHANGED << args, run, prev_result, report_fp_, coded_os_, sample_count_,
                  thread_tree_, read_vars, out_vars, dump_vars >>

\* Run, step 1: ParseOptions and the choice of dump mode (lines 104-114).
RunParseOptions ==
  /\ pc = "parse"
  /\ LET o == ParseOptions(args,
               [ok |-> TRUE, record_filename |-> record_filename_,
                dump_protobuf_report_file |-> dump_protobuf_report_file_,
                report_filename |-> report_filename_,
                use_protobuf |-> use_protobuf_,
                show_callchain |-> show_callchain_]) IN
     /\ record_filename_' = o.record_filename
     /\ dump_protobuf_report_file_' = o.dump_protobuf_report_file
     /\ report_filename_' = o.report_filename
     /\ use_protobuf_' = o.use_protobuf
     /\ show_callchain_' = o.show_callchain
     /\ IF ~o.ok THEN Return(FALSE)
        ELSE IF o.dump_protobuf_report_file # ""
        THEN pc' = "dump_open" /\ result' = result
        ELSE pc' = "open" /\ result' = result
  /\ UNCHANGED << args, run, prev_result, report_fp_, coded_os_, sample_count_,
                  thread_tree_, read_vars, out_vars, dump_vars >>

\* Run, steps 2 and 3: open the record file, then the report stream
\* (lines 116-143).
RunOpen ==
  /\ pc = "open"
  /\ \E record_ok \in BOOLEAN, fopen_ok \in BOOLEAN :
       IF ~record_ok
       THEN /\ Return(FALSE)
            /\ UNCHANGED << record_opened, report_fp_, coded_os_, disk >>
       ELSE /\ record_opened' = TRUE
            /\ IF report_filename_ # "" /\ ~fopen_ok
               THEN /\ Return(FALSE)
                    /\ report_fp_' = "stdout"
                    /\ UNCHANGED << coded_os_, disk >>
               ELSE /\ pc' = "read" /\ result' = result
                    /\ report_fp_' = (IF report_filename_ # "" THEN "file" ELSE "stdout")
                    /\ disk' = (IF report_filename_ # ""
                                THEN [exists |-> TRUE, name |-> report_filename_,
                                      content |-> << >>, limit |-> disk.limit]
                                ELSE disk)
                    /\ coded_os_' = (IF use_protobuf_ THEN OpenStream ELSE coded_os_)
  /\ UNCHANGED << args, run, prev_result, record_filename_,
                  dump_protobuf_report_file_, show_callchain_, use_protobuf_,
                  report_filename_, sample_count_, thread_tree_, pending, input,
                  trace, emitted, reported, out, text, ferr, dump_vars >>

\* A length prefix taken before the record was filled in.
RecordFrameEarlySize(rec) == LittleEndian32(0) \o SerializeRecord(rec)

\* A length prefix one more than the payload's size.
RecordFrameLong(rec) == LittleEndian32(ByteSize(rec) + 1) \o SerializeRecord(rec)

\* coded_os_->WriteLittleEndian32(proto_record.ByteSize()) and
\* proto_record.SerializeToCodedStream(coded_os_): the bytes of one record.
RecordFrame(rec) == LittleEndian32(ByteSize(rec)) \o SerializeRecord(rec)

\* coded_os_->WriteLittleEndian32(0) at the end of Run.
Terminator == LittleEndian32(0)

Writer == [os |-> coded_os_, file |-> disk.content, ferr |-> ferr, limit |-> disk.limit]

UpdateCall == [op |-> "Update", ip |-> 0, in_kernel |-> FALSE]

\* A ProcessRecord that calls PrintSampleRecord whatever use_protobuf_ says.
ProcessRecordAlwaysText(r) ==
  LET tt == Update(thread_tree_, r) IN
  IF r.type = "sample"
  THEN LET tt2 == FindThreadOrNew(tt, r.pid, r.tid).tree
           b == BuildTextBlock(tt, r, show_callchain_) IN
       [tree |-> tt2, count |-> sample_count_ + 1,
        calls |-> << UpdateCall >> \o b.calls,
        emit |-> [kind |-> "text", record |-> EmptyRecord, lines |-> b.lines],
        bytes |-> << >>, lines |-> b.lines]
  ELSE [tree |-> tt, count |-> sample_count_, calls |-> << UpdateCall >>,
        emit |-> [kind |-> "none", record |-> EmptyRecord, lines |-> << >>],
        bytes |-> << >>, lines |-> << >>]

\* A ProcessRecord that counts every record, sample or not.
ProcessRecordCountsAll(r) ==
  LET tt == Update(thread_tree_, r) IN
  IF r.type = "sample"
  THEN LET tt2 == FindThreadOrNew(tt, r.pid, r.tid).tree IN
       IF use_protobuf_
       THEN LET b == BuildProtoRecord(tt, r, show_callchain_) IN
            [tree |-> tt2, count |-> sample_count_ + 1,
             calls |-> << UpdateCall >> \o b.calls,
             emit |-> [kind |-> "protobuf", record |-> b.record, lines |-> << >>],
             bytes |-> RecordFrame(b.record), lines |-> << >>]
       ELSE LET b == BuildTextBlock(tt, r, show_callchain_) IN
            [tree |-> tt2, count |-> sample_count_ + 1,
             calls |-> << UpdateCall >> \o b.calls,
             emit |-> [kind |-> "text", record |-> EmptyRecord, lines |-> b.lines],
             bytes |-> << >>, lines |-> b.lines]
  ELSE [tree |-> tt, count |-> sample_count_ + 1, calls |-> << UpdateCall >>,
        emit |-> [kind |-> "none", record |-> EmptyRecord, lines |-> << >>],
        bytes |-> << >>, lines |-> << >>]

\* A ProcessRecord that prints the sample before it updates the thread tree.
ProcessRecordUpdateLast(r) ==
  LET tt == Update(thread_tree_, r) IN
  IF r.type = "sample"
  THEN LET tt2 == FindThreadOrNew(tt, r.pid, r.tid).tree IN
       IF use_protobuf_
       THEN LET b == BuildProtoRecord(thread_tree_, r, show_callchain_) IN
            [tree |-> tt2, count |-> sample_count_ + 1,
             calls |-> b.calls \o << UpdateCall >>,
             emit |-> [kind |-> "protobuf", record |-> b.record, lines |-> << >>],
             bytes |-> RecordFrame(b.record), lines |-> << >>]
       ELSE LET b == BuildTextBlock(thread_tree_, r, show_callchain_) IN
            [tree |-> tt2, count |-> sample_count_ + 1,
             calls |-> b.calls \o << UpdateCall >>,
             emit |-> [kind |-> "text", record |-> EmptyRecord, lines |-> b.lines],
             bytes |-> << >>, lines |-> b.lines]
  ELSE [tree |-> tt, count |-> sample_count_, calls |-> << UpdateCall >>,
        emit |-> [kind |-> "none", record |-> EmptyRecord, lines |-> << >>],
        bytes |-> << >>, lines |-> << >>]

\* What ProcessRecord does with record r: the thread tree afterwards, the
\* resolver calls, and what PrintSampleRecordInProtobuf / PrintSampleRecord
\* produce.
ProcessRecord(r) ==
  LET tt == Update(thread_tree_, r) IN
  IF r.type = "sample"
  THEN LET tt2 == FindThreadOrNew(tt, r.pid, r.tid).tree IN
       IF use_protobuf_
       THEN LET b == BuildProtoRecord(tt, r, show_callchain_) IN
            [tree |-> tt2, count |-> sample_count_ + 1,
             calls |-> << UpdateCall >> \o b.calls,
             emit |-> [kind |-> "protobuf", record |-> b.record, lines |-> << >>],
             bytes |-> RecordFrame(b.record), lines |-> << >>]
       ELSE LET b == BuildTextBlock(tt, r, show_callchain_) IN
            [tree |-> tt2, count |-> sample_count_ + 1,
             calls |-> << UpdateCall >> \o b.calls,
             emit |-> [kind |-> "text", record |-> EmptyRecord, lines |-> b.lines],
             bytes |-> << >>, lines |-> b.lines]
  ELSE [tree |-> tt, count |-> sample_count_, calls |-> << UpdateCall >>,
        emit |-> [kind |-> "none", record |-> EmptyRecord, lines |-> << >>],
        bytes |-> << >>, lines |-> << >>]

\* A Run whose callback returns true whatever ProcessRecord returned.
RunProcessRecordGoesOn ==
  /\ pc = "read" /\ pending # << >>
  /\ \E k \in FailChoices(ProcessRecord(Head(pending)).bytes) :
       LET r == Head(pending)
           p == ProcessRecord(r)
           w == WriteRaw(Writer, p.bytes, k)
       IN /\ pending' = Tail(pending)
          /\ input' = Append(input, r)
          /\ trace' = Append(trace, p.calls)
          /\ emitted' = Append(emitted, p.emit)
          /\ thread_tree_' = p.tree
          /\ sample_count_' = p.count
          /\ out' = out \o p.bytes
          /\ text' = text \o p.lines
          /\ coded_os_' = w.os
          /\ disk' = [disk EXCEPT !.content = w.file]
          /\ ferr' = (w.ferr \/ (p.lines # << >> /\ k = 0))
          /\ pc' = "read" /\ result' = result
  /\ UNCHANGED << args, run, prev_result, record_filename_,
                  dump_protobuf_report_file_, show_callchain_, use_protobuf_,
                  report_filename_, report_fp_, record_opened, reported,
                  dump_vars >>

\* Run, step 4: ReadDataSection delivers the next record to ProcessRecord
\* (lines 146-151, 253-265); a false return ends Run.
RunProcessRecord ==
  /\ pc = "read" /\ pending # << >>
  /\ \E k \in FailChoices(ProcessRecord(Head(pending)).bytes) :
       LET r == Head(pending)
           p == ProcessRecord(r)
           w == WriteRaw(Writer, p.bytes, k)
           ok == ~(use_protobuf_ /\ r.type = "sample" /\ w.os.failed)
       IN /\ pending' = Tail(pending)
          /\ input' = Append(input, r)
          /\ trace' = Append(trace, p.calls)
          /\ emitted' = Append(emitted, p.emit)
          /\ thread_tree_' = p.tree
          /\ sample_count_' = p.count
          /\ out' = out \o p.bytes
          /\ text' = text \o p.lines
          /\ coded_os_' = w.os
          /\ disk' = [disk EXCEPT !.content = w.file]
          /\ ferr' = (w.ferr \/ (p.lines # << >> /\ k = 0))
          /\ IF ok THEN pc' = "read" /\ result' = result ELSE Return(FALSE)
  /\ UNCHANGED << args, run, prev_result, record_filename_,
                  dump_protobuf_report_file_, show_callchain_, use_protobuf_,
                  report_filename_, report_fp_, record_opened, reported,
                  dump_vars >>

\* Run, step 4: ReadDataSection fails on the record file itself (line 150);
\* the stream objects are destroyed on the way out.
RunReadFail ==
  /\ pc = "read"
  /\ \E fwrite_ok \in BOOLEAN :
       LET w == FlushOnExit(Writer, fwrite_ok) IN
       /\ coded_os_' = w.os
       /\ disk' = [disk EXCEPT !.content = w.file]
       /\ ferr' = w.ferr
  /\ Return(FALSE)
  /\ UNCHANGED << args, run, prev_result, record_filename_,
                  dump_protobuf_report_file_, show_callchain_, use_protobuf_,
                  report_filename_, report_fp_, sample_count_, thread_tree_,
                  read_vars, out, text, dump_vars >>

\* Run, end (lines 152-170): log the count, write the terminator or flush,
\* check the error states, return; then the stream objects are destroyed.
RunFinish ==
  /\ pc = "read" /\ pending = << >>
  /\ reported' = sample_count_
  /\ \E k \in FailChoices(Terminator), fwrite_ok \in BOOLEAN :
       IF use_protobuf_
       THEN LET w == WriteRaw(Writer, Terminator, k)
                had_error == w.os.failed
                x == FlushOnExit(w, fwrite_ok)
            IN /\ out' = out \o Terminator
               /\ Return(~had_error /\ ~w.ferr)
               /\ coded_os_' = x.os
               /\ disk' = [disk EXCEPT !.content = x.file]
               /\ ferr' = x.ferr
       ELSE /\ ferr' = (ferr \/ k = 0)
            /\ Return(~ferr')
            /\ UNCHANGED << out, coded_os_, disk >>
  /\ UNCHANGED << args, run, prev_result, record_filename_,
                  dump_protobuf_report_file_, show_callchain_, use_protobuf_,
                  report_filename_, report_fp_, sample_count_, thread_tree_,
                  pending, record_opened, input, trace, emitted, text, dump_vars >>

\* A later invocation, by a new command object, of
\* report-sample --dump-protobuf-report <the report file just written>.
Redump ==
  /\ pc = "done" /\ run = 1 /\ use_protobuf_ /\ report_fp_ = "file"
  /\ run' = 2 /\ prev_result' = result
  /\ args' = << "--dump-protobuf-report", report_filename_ >>
  /\ pc' = "parse" /\ result' = "running"
  /\ record_filename_' = Constructor.record_filename
  /\ dump_protobuf_report_file_' = Constructor.dump_protobuf_report_file
  /\ show_callchain_' = Constructor.show_callchain
  /\ use_protobuf_' = Constructor.use_protobuf
  /\ report_filename_' = Constructor.report_filename
  /\ report_fp_' = Constructor.report_fp
  /\ coded_os_' = Constructor.coded_os
  /\ sample_count_' = Constructor.sample_count
  /\ thread_tree_' = Constructor.thread_tree
  /\ UNCHANGED << read_vars, out_vars, dump_vars >>

\* ------------------------------------------------------------------------
\* DumpProtobufReport
\* ------------------------------------------------------------------------
\* c_str() printed with %s: the bytes before the first NUL.
RECURSIVE CStr(_)
CStr(b) == IF b = << >> \/ Head(b) = 0 THEN << >> ELSE << Head(b) >> \o CStr(Tail(b))

RECURSIVE RenderCallchainSwapped(_)
\* A dump that prints the file as the symbol and the symbol as the file.
RenderCallchainSwapped(cc) ==
  IF cc = << >> THEN << >>
  ELSE << [ip |-> Head(cc).ip, dso |-> CStr(Head(cc).symbol),
           symbol |-> CStr(Head(cc).file)] >> \o RenderCallchainSwapped(Tail(cc))

RECURSIVE RenderCallchain(_)
RenderCallchain(cc) ==
  IF cc = << >> THEN << >>
  ELSE << [ip |-> Head(cc).ip, dso |-> CStr(Head(cc).file),
           symbol |-> CStr(Head(cc).symbol)] >> \o RenderCallchain(Tail(cc))

\* The block printed for one sample (lines 237-247).
RenderSample(n, sample) ==
  [sample |-> n, time |-> sample.time, callchain |-> RenderCallchain(sample.callchain)]

\* fopen(filename, "rb") (lines 206-216).
DumpOpen ==
  /\ pc = "dump_open"
  /\ \E fopen_ok \in BOOLEAN :
       IF fopen_ok /\ disk.exists /\ disk.name = dump_protobuf_report_file_
       THEN pc' = "dump_loop" /\ result' = result /\ dpos' = 1
       ELSE Return(FALSE) /\ dpos' = dpos
  /\ UNCHANGED << args, run, prev_result, cmd_vars, read_vars, out_vars, sizes,
                  parsed, rendered, dump_sample_count >>

\* A turn that prints whatever record it parsed, without looking at its type.
DumpRecordAnyType(size, p) ==
  /\ sizes' = Append(sizes, size.val)
  /\ dpos' = p.pos
  /\ IF ~p.ok
     THEN /\ Return(FALSE)
          /\ UNCHANGED << parsed, rendered, dump_sample_count >>
     ELSE /\ parsed' = Append(parsed, p.msg)
          /\ pc' = "dump_loop" /\ result' = result
          /\ dump_sample_count' = dump_sample_count + 1
          /\ rendered' = Append(rendered,
               RenderSample(dump_sample_count + 1, p.msg.sample))

\* The rest of a turn once the payload was parsed into p (lines 228-247).
DumpRecord(size, p) ==
  /\ sizes' = Append(sizes, size.val)
  /\ dpos' = p.pos
  /\ IF ~p.ok
     THEN /\ Return(FALSE)
          /\ UNCHANGED << parsed, rendered, dump_sample_count >>
     ELSE /\ parsed' = Append(parsed, p.msg)
          /\ IF p.msg.type # Record_Type_SAMPLE
             THEN /\ Return(FALSE)
                  /\ UNCHANGED << rendered, dump_sample_count >>
             ELSE /\ pc' = "dump_loop" /\ result' = result
                  /\ dump_sample_count' = dump_sample_count + 1
                  /\ rendered' = Append(rendered,
                       RenderSample(dump_sample_count + 1, p.msg.sample))

\* A turn that takes the end of the input for the end of the report.
DumpTurnEndOfInputOk(size) ==
  IF ~size.ok
  THEN /\ Return(TRUE)
       /\ UNCHANGED dump_vars
  ELSE IF size.val = 0
  THEN /\ Return(TRUE)
       /\ sizes' = Append(sizes, 0)
       /\ dpos' = size.pos
       /\ UNCHANGED << parsed, rendered, dump_sample_count >>
  ELSE DumpRecord(size, ParseFromCodedStream(disk.content, size.pos, size.val))

\* A turn once the length prefix was read into size (lines 219-226).
DumpTurn(size) ==
  IF ~size.ok
  THEN /\ Return(FALSE)
       /\ UNCHANGED dump_vars
  ELSE IF size.val = 0
  THEN /\ Return(TRUE)
       /\ sizes' = Append(sizes, 0)
       /\ dpos' = size.pos
       /\ UNCHANGED << parsed, rendered, dump_sample_count >>
  ELSE DumpRecord(size, ParseFromCodedStream(disk.content, size.pos, size.val))

\* One turn of while (true) (lines 217-248), and the return after the loop.
DumpStep ==
  /\ pc = "dump_loop"
  /\ DumpTurn(ReadLittleEndian32(disk.content, dpos))
  /\ UNCHANGED << args, run, prev_result, cmd_vars, read_vars, out_vars >>

\* ------------------------------------------------------------------------
\* Inputs
\* ------------------------------------------------------------------------
SeqsUpTo(S, n) == UNION { [1..m -> S] : m \in 0..n }

\* Every command line of at most MaxArgs arguments.
ArgLists == SeqsUpTo(Tokens, MaxArgs)

\* One command line per way of running the report.
CmdLines ==
  { << >>,
    << "--show-callchain" >>,
    << "-o", "f" >>,
    << "--show-callchain", "-o", "f" >>,
    << "--protobuf", "-o", "f" >>,
    << "--protobuf", "-o", "f", "--show-callchain" >>,
    << "-i", "f", "--protobuf" >>,
    << "--dump-protobuf-report", "f" >> }

Mmaps ==
  { MmapRecord(FALSE, 1, DsoUser), MmapRecord(TRUE, 1, DsoKernel),
    MmapRecord(FALSE, 1, DsoKernel) }

Samples ==
  { SampleRecord(5, 1, FALSE, << >>),
    SampleRecord(300, 2, FALSE, << 2, 1, PERF_CONTEXT_KERNEL, 2 >>),
    SampleRecord(7, 2, TRUE, << PERF_CONTEXT_USER, 1, 1 >>),
    SampleRecord(5, 1, TRUE, << 1, PERF_CONTEXT_HV, 2, 1 >>),
    SampleRecord(9, 1, TRUE, << PERF_CONTEXT_USER, 2, 1 >>) }

Records == Mmaps \cup Samples

\* Capture files of at most MaxRecords records.
RecordFiles == SeqsUpTo(Records, MaxRecords)

\* Call-chain values: two addresses, the two context markers, another value
\* at or above PERF_CONTEXT_MAX.
ChainValues == { 1, 2, PERF_CONTEXT_KERNEL, PERF_CONTEXT_USER, PERF_CONTEXT_HV }

\* [A, KERNEL, B, USER, C] under a leaf that is none of them.
ExampleSample ==
  SampleRecord(9, 3, FALSE, << 1, PERF_CONTEXT_KERNEL, 1, PERF_CONTEXT_USER, 1 >>)

WalkSamples ==
  { SampleRecord(9, 1, k, c) : k \in BOOLEAN, c \in SeqsUpTo(ChainValues, MaxChain) }
  \cup { ExampleSample }

ProbeSample == SampleRecord(11, 2, FALSE, << 1, 2 >>)

\* Capture files for the walk: no mapping or both, one sample, and possibly a
\* second sample after it.
WalkFiles ==
  { pre \o << sm >> \o post :
      pre \in { << >>, << MmapRecord(FALSE, 1, DsoUser), MmapRecord(TRUE, 1, DsoKernel) >> },
      sm \in WalkSamples,
      post \in { << >>, << ProbeSample >> } }

WalkCmdLines ==
  { << >>, << "--show-callchain" >>, << "--protobuf", "-o", "f" >>,
    << "--protobuf", "-o", "f", "--show-callchain" >> }

EntryL == [ip |-> 1, symbol |-> << 102, 49 >>, file |-> DsoUser]
EntryU == [ip |-> 300, symbol |-> Unknown, file |-> Unknown]

\* Payloads a report file may hold: records as the writer makes them, and
\* records with another type, no type, an unknown type value, or no sample.
Payloads ==
  { SerializeRecord([type |-> Record_Type_SAMPLE,
                     sample |-> [time |-> 5, callchain |-> << EntryL >>]]),
    SerializeRecord([type |-> Record_Type_SAMPLE,
                     sample |-> [time |-> 300, callchain |-> << EntryU, EntryL >>]]),
    SerializeRecord([type |-> Record_Type_UNKNOWN,
                     sample |-> [time |-> 5, callchain |-> << EntryL >>]]),
    SerializeRecord([type |-> 2,
                     sample |-> [time |-> 5, callchain |-> << EntryL >>]]),
    LengthDelimited(18, SerializeSample([time |-> 5, callchain |-> << EntryL >>])),
    << 8, Record_Type_SAMPLE >> }

RECURSIVE Framed(_)
Framed(ps) ==
  IF ps = << >> THEN << >>
  ELSE LittleEndian32(Len(Head(ps))) \o Head(ps) \o Framed(Tail(ps))

Prefixes(b) == { SubSeq(b, 1, n) : n \in 0..Len(b) }

\* Ways of asking for a dump of f, alone and with the other options.
DumpCmdLines ==
  { << "--dump-protobuf-report", "f" >>,
    << "-i", "g", "--dump-protobuf-report", "f" >>,
    << "--dump-protobuf-report", "f", "-o", "g" >>,
    << "--protobuf", "-o", "f", "--show-callchain", "--dump-protobuf-report", "f" >> }

\* Report files: at most MaxRecords framed payloads and the terminator, cut at
\* any byte.
ReportFiles ==
  UNION { Prefixes(Framed(ps) \o Terminator) : ps \in SeqsUpTo(Payloads, MaxRecords) }

\* ------------------------------------------------------------------------
\* Specifications
\* ------------------------------------------------------------------------
\* Devices that are full after 0..MaxLimit bytes of the report file.
FullDevices == { [NoFile EXCEPT !.limit = l] : l \in 0..MaxLimit }

\* The command lines that write a binary report.
BinaryCmdLines ==
  { << "--protobuf", "-o", "f" >>, << "--protobuf", "-o", "f", "--show-callchain" >> }

\* Capture files of samples only, the records that put bytes in the report:
\* one that makes a record shorter than a block and one that makes a record
\* longer than a block when its call-chain is shown.
SampleFiles ==
  SeqsUpTo({ SampleRecord(5, 1, FALSE, << >>),
             SampleRecord(300, 2, FALSE, << 2, 1, PERF_CONTEXT_KERNEL, 2 >>) },
           MaxRecords)

\* Every command line over every capture file on a device that takes every
\* byte, and the binary reports of the sample files on the devices that fill up.
Init ==
  \/ InitWith(CmdLines, RecordFiles, { NoFile })
  \/ InitWith(BinaryCmdLines, SampleFiles, FullDevices)

Next ==
  \/ RunParseOptions
  \/ RunOpen
  \/ RunProcessRecord
  \/ RunReadFail
  \/ RunFinish
  \/ Redump
  \/ DumpOpen
  \/ DumpStep

Spec == Init /\ [][Next]_vars

\* Every command line, over capture files of at most one record.
InitOptions ==
  InitWith(ArgLists, { << >>, << SampleRecord(5, 1, FALSE, << 2 >>) >> }, { NoFile })

SpecOptions == InitOptions /\ [][Next]_vars

\* Every call-chain, under the four ways of reporting samples.
InitWalk == InitWith(WalkCmdLines, WalkFiles, { NoFile })

NextWalk ==
  \/ RunParseOptions
  \/ RunOpen
  \/ RunProcessRecord
  \/ RunFinish

SpecWalk == InitWalk /\ [][NextWalk]_vars

\* The dumper over report files of every shape.
InitDump ==
  InitWith(DumpCmdLines, { << >> },
           { [exists |-> TRUE, name |-> "f", content |-> c, limit |-> Unlimited] :
               c \in ReportFiles })

NextDump ==
  \/ RunParseOptions
  \/ DumpOpen
  \/ DumpStep

SpecDump == InitDump /\ [][NextDump]_vars

\* ------------------------------------------------------------------------
\* Properties
\* ------------------------------------------------------------------------
IsSample(r) == r.type = "sample"
IsEncoded(e) == e.kind = "protobuf"

\* The sample records delivered so far, and the records encoded for them.
InputSamples == SelectSeq(input, IsSample)
EncodedRecords == SelectSeq(emitted, IsEncoded)

IsPrefix(a, b) == Len(a) <= Len(b) /\ a = SubSeq(b, 1, Len(a))

\* The first invocation ran in binary mode.
BinaryRun == (run = 1 /\ use_protobuf_) \/ run = 2

\* The first invocation returned true and every byte it produced is in the
\* report file.
WroteReport == prev_result = "ok" /\ disk.content = out

\* C1 (round trip): when a binary-mode run succeeded and every byte reached
\* the report file, dumping that file succeeds and prints one block per
\* sample, in input order, the k-th with the k-th sample's time and the
\* frames (address, file, symbol) encoded for it, in order.
RoundTrip ==
  (run = 2 /\ pc = "done" /\ dpos > 0 /\ WroteReport) =>
    /\ result = "ok"
    /\ Len(rendered) = Len(InputSamples)
    /\ \A k \in 1..Len(rendered) :
         LET cc == EncodedRecords[k].record.sample.callchain IN
         /\ rendered[k].sample = k
         /\ rendered[k].time = InputSamples[k].time
         /\ Len(rendered[k].callchain) = Len(cc)
         /\ \A i \in 1..Len(cc) :
              rendered[k].callchain[i] =
                [ip |-> cc[i].ip, dso |-> cc[i].file, symbol |-> cc[i].symbol]

\* Two samples were written and dumped, one of them with three frames.
RoundTripWitness ==
  /\ run = 2 /\ pc = "done" /\ dpos > 0 /\ WroteReport /\ result = "ok"
  /\ Len(rendered) = 2
  /\ \E k \in 1..2 : Len(rendered[k].callchain) = 3

\* Streams of complete length-prefixed records with no zero prefix after them.
UnterminatedStreams == { Framed(ps) : ps \in SeqsUpTo(Payloads, MaxRecords) }

\* C2 (terminator): a dump of a stream of complete records with no trailing
\* zero prefix fails, and a dump never succeeds unless the last prefix it
\* read was zero.
TerminatorCorrectness ==
  (pc = "done" /\ dpos > 0) =>
    /\ disk.content \in UnterminatedStreams => result = "fail"
    /\ result = "ok" => (sizes # << >> /\ sizes[Len(sizes)] = 0)

\* Two complete records were dumped and the input ended where the third
\* prefix was expected.
TerminatorWitness ==
  /\ pc = "done" /\ result = "fail"
  /\ disk.content \in UnterminatedStreams
  /\ Len(rendered) = 2 /\ Len(sizes) = 2 /\ dpos = Len(disk.content) + 1

\* The 32-bit little-endian value in the first four bytes of b.
LE32At(b) == b[1] + 256 * b[2] + 65536 * b[3] + 16777216 * b[4]

RECURSIVE SplitFrames(_, _)
\* b cut into the payloads of its leading (non-zero length, payload) pairs,
\* and what follows them.
SplitFrames(b, acc) ==
  IF Len(b) < 4 THEN [payloads |-> acc, rest |-> b]
  ELSE IF LE32At(b) = 0 \/ Len(b) < 4 + LE32At(b)
  THEN [payloads |-> acc, rest |-> b]
  ELSE SplitFrames(SubSeq(b, 5 + LE32At(b), Len(b)),
                   Append(acc, SubSeq(b, 5, 4 + LE32At(b))))

\* C3 (binary stream shape): in binary mode the bytes handed to the output
\* stream are one (length, payload) pair per sample processed so far, in
\* input order, each payload of the length its prefix says; once Run wrote
\* the end of the stream exactly one zero length follows and nothing after
\* it; a successful Run wrote it; the file holds a prefix of these bytes, as
\* many of them as the device takes while no write has reported a failure.
BinaryStreamShape ==
  BinaryRun =>
    LET f == SplitFrames(out, << >>) IN
    /\ Len(f.payloads) = Len(InputSamples)
    /\ \A k \in 1..Len(f.payloads) :
         LET m == ParseFromCodedStream(f.payloads[k], 1, 0 - 1) IN
         /\ m.ok /\ m.pos = Len(f.payloads[k]) + 1
         /\ m.msg.type = Record_Type_SAMPLE
         /\ m.msg.sample.time = InputSamples[k].time
         /\ m.msg = EncodedRecords[k].record
    /\ f.rest = (IF reported >= 0 THEN Terminator ELSE << >>)
    /\ (run = 1 /\ result = "ok") => reported >= 0
    /\ IsPrefix(disk.content, out)
    /\ (run = 1 /\ ~coded_os_.failed) =>
         Cut(disk.content \o coded_os_.buf, disk.limit) = Cut(out, disk.limit)

\* A binary-mode run of two samples returned true.
BinaryStreamShapeWitness ==
  /\ run = 1 /\ use_protobuf_ /\ pc = "done" /\ result = "ok"
  /\ Len(InputSamples) = 2 /\ Len(input) = 2
  /\ Len(out) > BlockSize

\* ------------------------------------------------------------------------
\* Properties of the call-chain walks
\* ------------------------------------------------------------------------
IsIpLine(l) == l.key = "ip"
IsDsoLine(l) == l.key = "dso"
IsSymbolLine(l) == l.key = "symbol"
IsFindMap(c) == c.op = "FindMap"

\* The frames produced for one delivered record, binary or text.
FramesOf(e) ==
  IF e.kind = "protobuf" THEN e.record.sample.callchain
  ELSE LET ips == SelectSeq(e.lines, IsIpLine)
           dsos == SelectSeq(e.lines, IsDsoLine)
           syms == SelectSeq(e.lines, IsSymbolLine)
       IN [i \in 1..Len(ips) |->
             [ip |-> ips[i].val, symbol |-> syms[i].val, file |-> dsos[i].val]]

FrameIps(e) == [i \in 1..Len(FramesOf(e)) |-> FramesOf(e)[i].ip]

Occurrences(q, x) == Cardinality({ i \in 1..Len(q) : q[i] = x })

\* A 64-bit value at or above PERF_CONTEXT_MAX.
AtOrAboveContextMax(v) == v \in PERF_CONTEXT_MAX..(0 - 1)
IsGenuine(v) == ~AtOrAboveContextMax(v)
Genuine(ips) == SelectSeq(ips, IsGenuine)

\* The delivered records that are samples.
SampleIndexes == { k \in 1..Len(input) : IsSample(input[k]) }

\* Samples whose raw call-chain has the sample's ip as first genuine address.
LeafRepeated(r) == Genuine(r.ips) # << >> /\ Genuine(r.ips)[1] = r.ip

\* C4 as stated (leaf deduplication): with show-callchain on, a sample whose
\* first genuine call-chain address is its leaf address A gets exactly one
\* frame with address A.
LeafDedupExactlyOne ==
  \A k \in SampleIndexes :
    (show_callchain_ /\ LeafRepeated(input[k])) =>
      Occurrences(FrameIps(emitted[k]), input[k].ip) = 1

\* C4 as the code has it: with show-callchain on, a sample whose first
\* genuine call-chain address is its leaf address A gets the leaf frame
\* followed by the genuine addresses after the first: the leaf and the first
\* genuine address share one frame, and A has as many frames as it has
\* occurrences among the genuine addresses.
LeafDedup ==
  \A k \in SampleIndexes :
    (show_callchain_ /\ LeafRepeated(input[k])) =>
      /\ FrameIps(emitted[k]) = << input[k].ip >> \o Tail(Genuine(input[k].ips))
      /\ Occurrences(FrameIps(emitted[k]), input[k].ip)
           = Occurrences(Genuine(input[k].ips), input[k].ip)

\* A sample whose chain opens with a marker and then its own ip was reported
\* with two frames.
LeafDedupWitness ==
  \E k \in SampleIndexes :
    /\ show_callchain_
    /\ input[k].ips = << PERF_CONTEXT_KERNEL, input[k].ip, 2 >>
    /\ FrameIps(emitted[k]) = << input[k].ip, 2 >>

\* The thread tree once the first k records were delivered.
RECURSIVE TreeAt(_)
TreeAt(k) == IF k = 0 THEN EmptyThreadTree ELSE Update(TreeAt(k - 1), input[k])

\* Positions of r's call-chain whose address gets a frame.
FramePositions(r) ==
  { i \in 1..Len(r.ips) :
      /\ IsGenuine(r.ips[i])
      /\ ~(r.ips[i] = r.ip /\ \A j \in 1..(i - 1) : ~IsGenuine(r.ips[j])) }

\* The context in force at position i of r's call-chain.
ContextAt(r, i) ==
  LET ms == { j \in 1..(i - 1) :
                r.ips[j] \in { PERF_CONTEXT_KERNEL, PERF_CONTEXT_USER } } IN
  IF ms = {} THEN r.in_kernel
  ELSE r.ips[CHOOSE j \in ms : \A h \in ms : h <= j] = PERF_CONTEXT_KERNEL

\* The n-th smallest member of a set of positions.
NthOf(S, n) == CHOOSE i \in S : Cardinality({ j \in S : j <= i }) = n

\* C5 (context tracking): with show-callchain on, the frames after the leaf
\* are the call-chain's emitted addresses in order, none of them a marker,
\* each looked up with FindMap under the most recent KERNEL or USER marker
\* before it in the same call-chain, or under the sample's own flag when
\* there is none, and carrying the file found under that context.
ContextTracking ==
  \A k \in SampleIndexes :
    show_callchain_ =>
      LET r == input[k]
          fs == FramesOf(emitted[k])
          lookups == SelectSeq(trace[k], IsFindMap)
          P == FramePositions(r)
      IN /\ Len(fs) = 1 + Cardinality(P)
         /\ Len(lookups) = Len(fs)
         /\ \A n \in 1..Len(fs) : ~AtOrAboveContextMax(fs[n].ip)
         /\ \A n \in 1..Cardinality(P) :
              LET i == NthOf(P, n) IN
              /\ lookups[n + 1] = [op |-> "FindMap", ip |-> r.ips[i],
                                   in_kernel |-> ContextAt(r, i)]
              /\ fs[n + 1].ip = r.ips[i]
              /\ fs[n + 1].file = FindMap(TreeAt(k), r.pid, r.ips[i], ContextAt(r, i))

\* [A, KERNEL, B, USER, C] was walked with both mappings known, and a second
\* sample after it was walked under its own context.
ContextTrackingWitness ==
  /\ show_callchain_ /\ Len(input) = 4
  /\ input[3] = ExampleSample /\ input[4] = ProbeSample
  /\ SelectSeq(trace[3], IsFindMap)
       = << FindMapCall(3, FALSE), FindMapCall(1, FALSE), FindMapCall(1, TRUE),
            FindMapCall(1, FALSE) >>
  /\ FramesOf(emitted[3])[3].file = DsoKernel
  /\ FramesOf(emitted[3])[4].file = DsoUser
  /\ SelectSeq(trace[4], IsFindMap)
       = << FindMapCall(2, FALSE), FindMapCall(1, FALSE), FindMapCall(2, FALSE) >>

\* C6 (leaf only): when show-callchain is off or the raw call-chain is empty,
\* a sample gets exactly one frame, the leaf, and one FindMap lookup.
LeafOnly ==
  \A k \in SampleIndexes :
    (~show_callchain_ \/ input[k].ips = << >>) =>
      /\ FrameIps(emitted[k]) = << input[k].ip >>
      /\ Len(SelectSeq(trace[k], IsFindMap)) = 1

\* With show-callchain off, a sample with a call-chain of MaxChain genuine
\* addresses other than its ip was reported with one frame.
LeafOnlyWitness ==
  \E k \in SampleIndexes :
    /\ ~show_callchain_
    /\ input[k].ips = << 2, 2, 2 >>
    /\ Len(FramesOf(emitted[k])) = 1

\* The position in input of the j-th sample.
SampleIndex(j) ==
  CHOOSE k \in SampleIndexes : Cardinality({ i \in SampleIndexes : i <= k }) = j

\* C7 (leaf first): every encoded sample record, as it stands in the output
\* bytes, has a non-empty callchain whose first entry has the sample's ip and
\* the file and symbol found for that ip under the sample's own InKernel().
LeafFirst ==
  BinaryRun =>
    LET f == SplitFrames(out, << >>) IN
    \A j \in 1..Len(f.payloads) :
      LET m == ParseFromCodedStream(f.payloads[j], 1, 0 - 1)
          k == SampleIndex(j)
          r == input[k]
          file == FindMap(TreeAt(k), r.pid, r.ip, r.in_kernel)
      IN /\ m.ok
         /\ Len(m.msg.sample.callchain) >= 1
         /\ m.msg.sample.callchain[1] =
              [ip |-> r.ip, symbol |-> FindSymbol(file, r.ip), file |-> file]

\* A kernel sample whose chain opens with a USER marker and holds the
\* sample's own ip again was encoded after the kernel mapping of that ip was
\* seen: the leaf has the kernel file, the later frame of the same address,
\* resolved in user context, has not.
LeafFirstWitness ==
  /\ run = 1 /\ use_protobuf_ /\ show_callchain_ /\ Len(input) = 2
  /\ input[1] = MmapRecord(TRUE, 1, DsoKernel)
  /\ input[2] = SampleRecord(9, 1, TRUE, << PERF_CONTEXT_USER, 2, 1 >>)
  /\ Len(emitted[2].record.sample.callchain) = 3
  /\ emitted[2].record.sample.callchain[1] =
       [ip |-> 1, symbol |-> FindSymbol(DsoKernel, 1), file |-> DsoKernel]
  /\ emitted[2].record.sample.callchain[3].ip = 1
  /\ emitted[2].record.sample.callchain[3].file = Unknown
  /\ Len(out) > 4

\* ------------------------------------------------------------------------
\* Properties of the options and of the dumper
\* ------------------------------------------------------------------------
OptionWidth(a) == IF a \in { "--dump-protobuf-report", "-i", "-o" } THEN 2 ELSE 1

RECURSIVE OptionPositions(_, _)
\* The positions of a command line read as options, from position i on.
OptionPositions(a, i) ==
  IF i > Len(a) THEN {}
  ELSE { i } \cup OptionPositions(a, i + OptionWidth(a[i]))

GivesProtobuf(a) == \E i \in OptionPositions(a, 1) : a[i] = "--protobuf"
GivesReportFile(a) == \E i \in OptionPositions(a, 1) : a[i] = "-o" /\ i < Len(a)

\* C8 (configuration error): when --protobuf is given without -o <file>, Run
\* has returned false as soon as it left ParseOptions: the capture file was
\* not opened, no report file was opened or written, no record was processed.
ProtobufWithoutReportFile ==
  (run = 1 /\ pc # "parse" /\ GivesProtobuf(args) /\ ~GivesReportFile(args)) =>
    /\ pc = "done" /\ result = "fail"
    /\ ~record_opened /\ input = << >>
    /\ report_fp_ = "null" /\ ~coded_os_.open /\ disk = NoFile
    /\ out = << >> /\ text = << >> /\ dpos = 0

\* -i f --protobuf --show-callchain was parsed to its end and refused.
ProtobufWithoutReportFileWitness ==
  /\ pc = "done" /\ result = "fail"
  /\ args = << "-i", "f", "--protobuf", "--show-callchain" >>
  /\ use_protobuf_ /\ show_callchain_ /\ record_filename_ = "f"
  /\ report_filename_ = ""

\* C9 as stated: a binary-mode Run that returned true got every byte up to
\* and including the zero terminator into the report file.
SuccessMeansWritten ==
  (run = 1 /\ use_protobuf_ /\ pc = "done" /\ result = "ok") =>
    (disk.content = out /\ ~ferr)

IsSampleType(m) == m.type = Record_Type_SAMPLE

\* C10 (decoder type check): a parsed record whose type is not SAMPLE is the
\* last one parsed, the dump has failed, and the blocks printed are those of
\* the SAMPLE records parsed, so none is printed for it.
DecoderTypeCheck ==
  dpos > 0 =>
    /\ \A k \in 1..Len(parsed) :
         ~IsSampleType(parsed[k]) =>
           (k = Len(parsed) /\ pc = "done" /\ result = "fail")
    /\ Len(rendered) = Len(SelectSeq(parsed, IsSampleType))
    /\ \A j \in 1..Len(rendered) :
         rendered[j].time = SelectSeq(parsed, IsSampleType)[j].sample.time

\* A well-formed record of another type after a sample record, with the
\* terminator behind it, was refused after the sample's block was printed.
DecoderTypeCheckWitness ==
  /\ pc = "done" /\ result = "fail"
  /\ Len(parsed) = 2 /\ ~IsSampleType(parsed[2])
  /\ Len(rendered) = 1 /\ Len(sizes) = 2
  /\ SubSeq(disk.content, dpos, Len(disk.content)) = Terminator

\* ------------------------------------------------------------------------
\* Properties of the dumper's failures
\* ------------------------------------------------------------------------
RECURSIVE SumOf(_)
SumOf(q) == IF q = << >> THEN 0 ELSE Head(q) + SumOf(Tail(q))

\* The file ends before the payload announced by the k-th prefix read does,
\* the payloads before it having been read whole.
ShortPayload(k) == 4 * k + SumOf(SubSeq(sizes, 1, k)) > Len(disk.content)

\* The k-th prefix read announced a payload that did not parse.
ParseFailed(k) == sizes[k] # 0 /\ k > Len(parsed)

\* C11 as stated (decoder fail-fast): when the k-th payload fails to parse or
\* is shorter than its length prefix says, the dump ends in failure with no
\* later prefix read and no block printed for the k-th record or after it.
DecoderFailFast ==
  (pc = "done" /\ dpos > 0) =>
    \A k \in 1..Len(sizes) :
      (sizes[k] # 0 /\ (ParseFailed(k) \/ ShortPayload(k))) =>
        /\ result = "fail"
        /\ k = Len(sizes)
        /\ Len(rendered) < k

\* ------------------------------------------------------------------------
\* Properties of record processing
\* ------------------------------------------------------------------------
IsUpdate(c) == c.op = "Update"

\* C12 (ordering of resolver updates): every record delivered got exactly
\* one thread_tree_.Update, made before any FindThreadOrNew, FindMap or
\* FindSymbol for that record; a record that is not a sample got nothing
\* else; the records were taken from the front of the capture file one by
\* one, so the thread tree is the one their updates give in input order.
UpdateOrdering ==
  run = 1 =>
    /\ Len(trace) = Len(input) /\ Len(emitted) = Len(input)
    /\ input \o pending \in RecordFiles
    /\ thread_tree_.maps = TreeAt(Len(input)).maps
    /\ \A k \in 1..Len(input) :
         /\ trace[k][1] = UpdateCall
         /\ Len(SelectSeq(trace[k], IsUpdate)) = 1
         /\ IsSample(input[k]) =>
              (Len(trace[k]) >= 4 /\ trace[k][2].op = "FindThreadOrNew")
         /\ ~IsSample(input[k]) => trace[k] = << UpdateCall >>

\* A mapping was replaced by a later one at the same address, or a sample
\* with a call-chain was resolved after a mapping record.
UpdateOrderingWitness ==
  /\ run = 1 /\ pc = "done" /\ result = "ok" /\ Len(input) = 2
  /\ input[1] = MmapRecord(FALSE, 1, DsoUser)
  /\ \/ /\ input[2] = MmapRecord(FALSE, 1, DsoKernel)
        /\ thread_tree_.maps = { [in_kernel |-> FALSE, pid |-> 1, addr |-> 1,
                                  dso |-> DsoKernel] }
     \/ /\ IsSample(input[2]) /\ show_callchain_
        /\ Len(trace[2]) >= 6

\* C13 (sample counter): in the first invocation sample_count_ is the number
\* of sample records delivered so far, so it starts at 0, grows by one per
\* sample and is left alone by other records; the count is logged only when
\* no record is left, as the last thing Run does with it, and is then the
\* number of samples of the input; a full run of either mode has logged it.
SampleCounter ==
  run = 1 =>
    /\ sample_count_ = Len(InputSamples)
    /\ reported >= 0 =>
         (pending = << >> /\ pc = "done" /\ reported = Len(InputSamples))
    /\ (pc = "done" /\ result = "ok" /\ dpos = 0) => reported = Len(InputSamples)

\* A full run over two samples, in text or binary mode.
SampleCounterWitness ==
  /\ run = 1 /\ pc = "done" /\ result = "ok" /\ Len(input) = 2
  /\ reported = 2 /\ sample_count_ = 2

GivesDump(a) ==
  \E i \in OptionPositions(a, 1) : a[i] = "--dump-protobuf-report" /\ i < Len(a)

RECURSIVE DumpOutcome(_, _)
\* What reading the report bytes c from position pos on comes to.
DumpOutcome(c, pos) ==
  IF ~ReadLittleEndian32(c, pos).ok THEN "fail"
  ELSE IF ReadLittleEndian32(c, pos).val = 0 THEN "ok"
  ELSE LET p == ParseFromCodedStream(c, ReadLittleEndian32(c, pos).pos,
                                     ReadLittleEndian32(c, pos).val) IN
       IF ~p.ok \/ p.msg.type # Record_Type_SAMPLE THEN "fail"
       ELSE DumpOutcome(c, p.pos)

\* C14 (dump mode bypass): when --dump-protobuf-report <file> is given, Run
\* goes from ParseOptions to the decoder and nowhere else: the capture file
\* is not opened, no report stream is opened or written, no record is
\* processed or counted, and once the file was opened the result is what
\* the file's bytes alone decide, whatever -i and -o were.
DumpBypass ==
  (run = 1 /\ pc # "parse" /\ GivesDump(args)) =>
    /\ pc \in { "dump_open", "dump_loop", "done" }
    /\ ~record_opened /\ input = << >> /\ reported = 0 - 1
    /\ report_fp_ = "null" /\ ~coded_os_.open
    /\ out = << >> /\ text = << >>
    /\ (pc = "done" /\ dpos > 0) => result = DumpOutcome(disk.content, 1)

\* A dump of a report of two samples succeeded although binary output to the
\* dumped file itself was asked for.
DumpBypassWitness ==
  /\ pc = "done" /\ result = "ok" /\ Len(rendered) = 2
  /\ use_protobuf_ /\ report_filename_ = "f" /\ dump_protobuf_report_file_ = "f"
  /\ Len(disk.content) > 4

\* C15 (mode exclusivity): from the end of ParseOptions on, use_protobuf_ is
\* what the command line says and stays so; a binary-mode run prints no text
\* line and every sample gets an encoded record; a text-mode run hands no
\* byte to a coded stream, opens none, and every sample gets a text block.
ModeExclusivity ==
  (run = 1 /\ pc # "parse") =>
    /\ (pc # "done" \/ input # << >>) => use_protobuf_ = GivesProtobuf(args)
    /\ use_protobuf_ =>
         /\ text = << >>
         /\ \A k \in SampleIndexes : emitted[k].kind = "protobuf"
    /\ ~use_protobuf_ =>
         /\ out = << >> /\ ~coded_os_.open /\ disk.content = << >>
         /\ \A k \in SampleIndexes : emitted[k].kind = "text"

\* A text-mode run to a file printed the blocks of two samples and ended.
ModeExclusivityWitness ==
  /\ run = 1 /\ pc = "done" /\ result = "ok" /\ ~use_protobuf_
  /\ report_fp_ = "file" /\ Len(InputSamples) = 2
  /\ Len(text) >= 10 /\ out = << >>

\* ------------------------------------------------------------------------
\* More properties of the call-chain walks
\* ------------------------------------------------------------------------
\* C16 (first-only deduplication): with show-callchain on, at most the first
\* genuine address of a call-chain goes without a frame, and only when it is
\* the leaf address; every genuine address after the first has its frame, in
\* order, also when it equals the leaf address; when the first genuine
\* address is not the leaf address every genuine address has its frame.
FirstOnlyDedup ==
  \A k \in SampleIndexes :
    show_callchain_ =>
      LET r == input[k]
          G == Genuine(r.ips)
          F == FrameIps(emitted[k])
          skipped == IF LeafRepeated(r) THEN 1 ELSE 0
      IN /\ Len(F) = 1 + Len(G) - skipped
         /\ F[1] = r.ip
         /\ \A i \in (1 + skipped)..Len(G) : F[1 + i - skipped] = G[i]

\* A call-chain that starts with another address and then holds the leaf
\* address twice was reported with all three after the leaf.
FirstOnlyDedupWitness ==
  \E k \in SampleIndexes :
    /\ show_callchain_
    /\ input[k].ip = 1 /\ input[k].ips = << 2, 1, 1 >>
    /\ FrameIps(emitted[k]) = << 1, 2, 1, 1 >>

IsRecognized(v) == v \in { PERF_CONTEXT_KERNEL, PERF_CONTEXT_USER }
KeepsRecognized(v) == IsGenuine(v) \/ IsRecognized(v)

\* Record r without the call-chain values at or above PERF_CONTEXT_MAX that
\* are neither PERF_CONTEXT_KERNEL nor PERF_CONTEXT_USER.
WithoutUnrecognized(r) == [r EXCEPT !.ips = SelectSeq(r.ips, KeepsRecognized)]

\* Record r without any call-chain value at or above PERF_CONTEXT_MAX.
WithoutMarkers(r) == [r EXCEPT !.ips = Genuine(r.ips)]

\* What the k-th delivered record would have got had it been record r.
WalkOf(k, r) ==
  IF emitted[k].kind = "protobuf"
  THEN LET b == BuildProtoRecord(TreeAt(k), r, show_callchain_) IN
       [frames |-> b.record.sample.callchain, calls |-> b.calls]
  ELSE LET b == BuildTextBlock(TreeAt(k), r, show_callchain_) IN
       [frames |-> FramesOf([kind |-> "text", lines |-> b.lines]),
        calls |-> b.calls]

\* C17 (unrecognized markers): a sample gets the frames and the lookups it
\* would get without the unrecognized values of its call-chain, so these
\* change neither the context nor the pending comparison with the leaf; it
\* gets the frame addresses it would get without any marker, so a marker
\* never uses up that comparison; and a run fails only on a failed write.
UnrecognizedMarkers ==
  /\ \A k \in SampleIndexes :
       /\ FramesOf(emitted[k]) = WalkOf(k, WithoutUnrecognized(input[k])).frames
       /\ trace[k] = << UpdateCall >> \o WalkOf(k, WithoutUnrecognized(input[k])).calls
       /\ FrameIps(emitted[k])
            = [i \in 1..Len(WalkOf(k, WithoutMarkers(input[k])).frames) |->
                 WalkOf(k, WithoutMarkers(input[k])).frames[i].ip]
       /\ (show_callchain_ /\ LeafRepeated(input[k])) =>
            Len(FramesOf(emitted[k])) = Len(Genuine(input[k].ips))
  /\ (input # << >> /\ result = "fail") => (ferr \/ coded_os_.failed)

\* A kernel sample whose call-chain is [HV, A, A] with leaf A was reported,
\* the mappings known, with the leaf and one more frame, both from the kernel
\* mapping, and the run succeeded.
UnrecognizedMarkersWitness ==
  /\ pc = "done" /\ result = "ok" /\ show_callchain_
  /\ \E k \in SampleIndexes :
       /\ input[k].in_kernel /\ input[k].ip = 1
       /\ input[k].ips = << PERF_CONTEXT_HV, 1, 1 >>
       /\ Len(FramesOf(emitted[k])) = 2
       /\ FramesOf(emitted[k])[2].file = DsoKernel

\* What PrintSampleRecordInProtobuf and PrintSampleRecord make of the k-th
\* delivered record.
BinaryWalk(k) ==
  LET b == BuildProtoRecord(TreeAt(k), input[k], show_callchain_) IN
  [frames |-> b.record.sample.callchain, calls |-> b.calls]

TextWalk(k) ==
  LET b == BuildTextBlock(TreeAt(k), input[k], show_callchain_) IN
  [frames |-> FramesOf([kind |-> "text", lines |-> b.lines]), calls |-> b.calls]

\* C18 (text and binary walks agree): for every sample delivered, the frames
\* and the lookups (address and context) of the text walk and of the binary
\* walk are the same sequence, which is what the run printed for it, and the
\* frames after the leaf follow the order of their addresses in the raw
\* call-chain.
WalksAgree ==
  \A k \in SampleIndexes :
    /\ TextWalk(k).frames = BinaryWalk(k).frames
    /\ TextWalk(k).calls = BinaryWalk(k).calls
    /\ FramesOf(emitted[k]) = TextWalk(k).frames
    /\ trace[k] = << UpdateCall >> \o BinaryWalk(k).calls
    /\ show_callchain_ =>
         \A n \in 1..(Len(FramesOf(emitted[k])) - 1) :
           FramesOf(emitted[k])[n + 1].ip
             = input[k].ips[NthOf(FramePositions(input[k]), n)]

\* A text-mode run printed four frames for [A, KERNEL, B, USER, C].
WalksAgreeWitness ==
  /\ show_callchain_ /\ ~use_protobuf_ /\ pc = "done"
  /\ \E k \in SampleIndexes :
       /\ input[k] = ExampleSample
       /\ emitted[k].kind = "text"
       /\ Len(FramesOf(emitted[k])) = 4

\* ------------------------------------------------------------------------
\* Properties of the end of the stream
\* ------------------------------------------------------------------------
\* C19 (no terminator after a failure): in binary mode, once the coded
\* stream failed under a record Run is over, no further record having been
\* taken; a Run that ended before the end of its input returned false,
\* logged no count and handed no zero length to the stream; and a dump of
\* the file of a Run that returned false never succeeds.
NoTerminatorAfterFailure ==
  /\ (run = 1 /\ use_protobuf_ /\ coded_os_.failed /\ reported < 0) => pc = "done"
  /\ (run = 1 /\ use_protobuf_ /\ pc = "done" /\ reported < 0) =>
       /\ result = "fail"
       /\ SplitFrames(out, << >>).rest = << >>
       /\ Len(SplitFrames(out, << >>).payloads) = Len(InputSamples)
  /\ (run = 2 /\ pc = "done" /\ prev_result = "fail") => result = "fail"

\* A run failed with a record still unread, after one whole record had got
\* to the file; the dump printed that record and failed.
NoTerminatorAfterFailureWitness ==
  /\ run = 2 /\ pc = "done" /\ prev_result = "fail" /\ result = "fail"
  /\ reported < 0 /\ pending # << >>
  /\ Len(rendered) = 1 /\ Len(InputSamples) >= 1

\* C20 (unambiguous terminator): every record encoded has the SAMPLE type
\* and at least the leaf frame, so its size and its length prefix are not
\* zero and the output bytes hold as many non-zero prefixed payloads as
\* samples were processed; a dump of a report that was written whole reads
\* the size of each record in turn and reads zero only after the last one.
UnambiguousTerminator ==
  /\ BinaryRun =>
       /\ \A k \in 1..Len(EncodedRecords) :
            LET rec == EncodedRecords[k].record IN
            /\ rec.type = Record_Type_SAMPLE
            /\ Len(rec.sample.callchain) >= 1
            /\ ByteSize(rec) > 0
            /\ LittleEndian32(ByteSize(rec)) # Terminator
       /\ Len(SplitFrames(out, << >>).payloads) = Len(EncodedRecords)
       /\ \A k \in 1..Len(SplitFrames(out, << >>).payloads) :
            Len(SplitFrames(out, << >>).payloads[k])
              = ByteSize(EncodedRecords[k].record)
  /\ (run = 2 /\ dpos > 0 /\ WroteReport) =>
       \A i \in 1..Len(sizes) :
         /\ sizes[i] = 0 <=> i = Len(InputSamples) + 1
         /\ i <= Len(InputSamples) => sizes[i] = ByteSize(EncodedRecords[i].record)

\* The dump of a report of two records read their two sizes and then zero.
UnambiguousTerminatorWitness ==
  /\ run = 2 /\ pc = "done" /\ WroteReport
  /\ Len(sizes) = 3 /\ sizes[1] > 0 /\ sizes[2] > 0 /\ sizes[3] = 0
  /\ Len(EncodedRecords) = 2

=============================================================================
